---- MODULE Spec2Model ----
(***************************************************************************)
(* A model of scripts/sentiment_analysis.py and                            *)
(* scripts/prepare_indicators.py.                                          *)
(*                                                                         *)
(* Three state machines share the module:                                  *)
(*   SpecScore  compute_polarity with the fallback TextBlob shim,          *)
(*   SpecRSI    process_file / rsi_wilder of prepare_indicators.py,        *)
(*   Spec       main of sentiment_analysis.py (aggregate, prepare, merge,  *)
(*              correlate, save).                                          *)
(*                                                                         *)
(* Floating point numbers are modelled as exact rationals plus the IEEE    *)
(* special values NaN and +Infinity; the sign of a zero never changes an   *)
(* outcome the model records.  Python's 0-based positions are kept: the    *)
(* element at position t of a series s is At(s, t).                        *)
(***************************************************************************)
EXTENDS Integers, Sequences, FiniteSets, TLC

VARIABLES
  \* compute_polarity
  text, tpc, blob, words, polarity,
  \* process_file / rsi_wilder
  df, rpc, gain, loss, avg_gain, avg_loss, i, prev_gain, prev_loss, RSI14,
  \* sentiment_analysis.main
  found, news, prices, mpc, sentiment_daily, prices_prepared, merged,
  per_ticker_corr, global_stats, corr_df

scoreVars == <<text, tpc, blob, words, polarity>>
rsiVars == <<df, rpc, gain, loss, avg_gain, avg_loss, i, prev_gain, prev_loss, RSI14>>
mainVars == <<found, news, prices, mpc, sentiment_daily, prices_prepared, merged,
              per_ticker_corr, global_stats, corr_df>>
vars == <<scoreVars, rsiVars, mainVars>>

(***************************************************************************)
(* Numbers.                                                                *)
(***************************************************************************)
None == [k |-> "none", n |-> 0, d |-> 1]
NaN == [k |-> "nan", n |-> 0, d |-> 1]
Inf == [k |-> "inf", n |-> 1, d |-> 1]

Abs(a) == IF a < 0 THEN -a ELSE a
Max(a, b) == IF a >= b THEN a ELSE b

RECURSIVE Gcd(_, _)
Gcd(a, b) == IF b = 0 THEN a ELSE Gcd(b, a % b)

\* the rational n/d (d # 0) in lowest terms with a positive denominator
Rat(n, d) ==
  LET g == Gcd(Abs(n), Abs(d))
      s == IF d < 0 THEN -1 ELSE 1
  IN [k |-> "fin", n |-> (s * n) \div g, d |-> (s * d) \div g]

Num(a) == Rat(a, 1)
IsFin(x) == x.k = "fin"

Add(x, y) ==
  IF x.k = "nan" \/ y.k = "nan" THEN NaN
  ELSE IF x.k = "inf" \/ y.k = "inf" THEN Inf
  ELSE Rat(x.n * y.d + y.n * x.d, x.d * y.d)

Neg(x) == IF IsFin(x) THEN Rat(-x.n, x.d) ELSE x

Sub(x, y) ==
  IF x.k = "nan" \/ y.k = "nan" THEN NaN
  ELSE IF y.k = "inf" THEN NaN
  ELSE IF x.k = "inf" THEN Inf
  ELSE Rat(x.n * y.d - y.n * x.d, x.d * y.d)

Mul(x, y) ==
  IF x.k = "nan" \/ y.k = "nan" THEN NaN
  ELSE IF x.k = "inf" \/ y.k = "inf"
    THEN (IF x.n = 0 \/ y.n = 0 THEN NaN ELSE Inf)
  ELSE Rat(x.n * y.n, x.d * y.d)

\* IEEE division as numpy performs it on float64 columns: x/0 is an
\* infinity for x # 0, 0/0 is NaN, x/inf is 0.  Only non-negative operands
\* are ever divided by zero or by infinity here.
Div(x, y) ==
  IF x.k = "nan" \/ y.k = "nan" THEN NaN
  ELSE IF y.k = "inf" THEN (IF x.k = "inf" THEN NaN ELSE Num(0))
  ELSE IF x.k = "inf" THEN Inf
  ELSE IF y.n = 0 THEN (IF x.n = 0 THEN NaN ELSE Inf)
  ELSE Rat(x.n * y.d, x.d * y.n)

Leq(x, y) == IsFin(x) /\ IsFin(y) /\ x.n * y.d <= y.n * x.d

At(s, t) == s[t + 1]

RECURSIVE SumSeq(_)
SumSeq(s) == IF s = <<>> THEN Num(0) ELSE Add(Head(s), SumSeq(Tail(s)))

\* the subsequence of s at the positions of the set J, in order
RECURSIVE Pick(_, _)
Pick(s, J) ==
  IF s = <<>> THEN <<>>
  ELSE Pick(SubSeq(s, 1, Len(s) - 1), J)
       \o (IF Len(s) \in J THEN <<s[Len(s)]>> ELSE <<>>)

(***************************************************************************)
(* sentiment_analysis.py: the fallback TextBlob shim and compute_polarity. *)
(* A text is NULL (Python's None), MISSING (the NaN of an empty cell) or a *)
(* string, kept as its sequence of characters.                             *)
(***************************************************************************)
NULL == [k |-> "None", s |-> <<>>]
MISSING == [k |-> "nan", s |-> <<>>]
Txt(s) == [k |-> "str", s |-> s]

LowerCase == <<"a","b","c","d","e","f","g","h","i","j","k","l","m",
               "n","o","p","q","r","s","t","u","v","w","x","y","z">>
UpperCase == <<"A","B","C","D","E","F","G","H","I","J","K","L","M",
               "N","O","P","Q","R","S","T","U","V","W","X","Y","Z">>
Digits == {"0","1","2","3","4","5","6","7","8","9"}

Range(s) == {s[j] : j \in DOMAIN s}

\* str.lower() on one character
LowerChar(c) ==
  IF c \in Range(UpperCase)
    THEN LowerCase[CHOOSE j \in DOMAIN UpperCase : UpperCase[j] = c]
    ELSE c

Lower(s) == [j \in DOMAIN s |-> LowerChar(s[j])]

\* the class \w of the regular expression
IsWordChar(c) == c \in Range(LowerCase) \cup Range(UpperCase) \cup Digits \cup {"_"}

\* re.findall(r"\w+", s): the maximal runs of word characters, left to right
RECURSIVE FindAll(_, _, _)
FindAll(s, cur, acc) ==
  IF s = <<>> THEN (IF cur = <<>> THEN acc ELSE Append(acc, cur))
  ELSE IF IsWordChar(Head(s)) THEN FindAll(Tail(s), Append(cur, Head(s)), acc)
  ELSE FindAll(Tail(s), <<>>, IF cur = <<>> THEN acc ELSE Append(acc, cur))

POS == { <<"g","o","o","d">>, <<"g","r","e","a","t">>,
         <<"p","o","s","i","t","i","v","e">>, <<"u","p">>, <<"b","u","l","l">>,
         <<"p","r","o","f","i","t">>, <<"g","a","i","n">>, <<"b","e","a","t">>,
         <<"o","u","t","p","e","r","f","o","r","m">>, <<"s","t","r","o","n","g">>,
         <<"i","m","p","r","o","v","e">>, <<"i","n","c","r","e","a","s","e">>,
         <<"s","u","r","g","e">>, <<"r","i","s","e">>, <<"g","r","o","w">>,
         <<"g","r","o","w","t","h">> }

NEG == { <<"b","a","d">>, <<"t","e","r","r","i","b","l","e">>,
         <<"n","e","g","a","t","i","v","e">>, <<"d","o","w","n">>, <<"b","e","a","r">>,
         <<"l","o","s","s">>, <<"d","r","o","p">>, <<"m","i","s","s">>,
         <<"w","e","a","k">>, <<"d","e","c","l","i","n","e">>,
         <<"d","e","c","r","e","a","s","e">>, <<"f","a","l","l">>,
         <<"p","l","u","n","g","e">> }

\* sum(1 for w in ws if w in lexicon)
CountIn(ws, lexicon) == Cardinality({j \in DOMAIN ws : ws[j] \in lexicon})

\* str(text) as compute_polarity applies it: None prints as "None" and a
\* NaN as "nan"
Str(t) ==
  IF t.k = "None" THEN Txt(<<"N","o","n","e">>)
  ELSE IF t.k = "nan" THEN Txt(<<"n","a","n">>)
  ELSE t

\* TextBlob.__init__: '' if text is None else str(text).lower()
BlobText(t) == IF t.k = "None" THEN <<>> ELSE Lower(t.s)

\* (pos - neg) / max(1, len(words))
PolarityOfBad(ws) ==
  Rat(CountIn(ws, POS) - CountIn(ws, NEG), Max(1, CountIn(ws, POS)))

PolarityOf(ws) ==
  Rat(CountIn(ws, POS) - CountIn(ws, NEG), Max(1, Len(ws)))

\* TextBlob.sentiment.polarity of the shim, given the stored text
Sentiment(s) ==
  LET ws == FindAll(s, <<>>, <<>>)
  IN IF ws = <<>> THEN Num(0) ELSE PolarityOf(ws)

\* compute_polarity as a function of the text (used by the aggregation)
compute_polarity(t) == Sentiment(BlobText(Str(t)))

(***************************************************************************)
(* The texts scored: None, the headline of the documented example, and     *)
(* every concatenation of at most MaxPieces pieces (words of both          *)
(* lexicons, a neutral word, capital letters, separators, an underscore).  *)
(***************************************************************************)
MaxPieces == 3

Pieces == { <<" ">>, <<",">>, <<"_">>, <<"g","o","o","d">>, <<"B","a","d">>,
            <<"L","O","S","S">>, <<"a","n","d">> }

ExampleHeadline ==
  <<"s","t","r","o","n","g"," ","g","r","o","w","t","h"," ","a","n","d"," ",
    "p","r","o","f","i","t"," ","g","a","i","n">>

RECURSIVE Concats(_)
Concats(m) ==
  IF m = 0 THEN {<<>>}
  ELSE LET shorter == Concats(m - 1)
       IN shorter \cup {s \o p : s \in shorter, p \in Pieces}

Texts == {NULL, MISSING, Txt(ExampleHeadline)} \cup {Txt(s) : s \in Concats(MaxPieces)}

\* TextBlob(str(text)): the constructor stores the lower-cased text
TextBlobInit ==
  /\ tpc = "call"
  /\ blob' = BlobText(Str(text))
  /\ tpc' = "sentiment"
  /\ UNCHANGED <<text, words, polarity>>

\* .sentiment when the text has no word: _Sentiment(0.0)
SentimentNoWords ==
  /\ tpc = "sentiment"
  /\ FindAll(blob, <<>>, <<>>) = <<>>
  /\ words' = <<>>
  /\ polarity' = Sentiment(blob)
  /\ tpc' = "done"
  /\ UNCHANGED <<text, blob>>

\* .sentiment when the text has words: the normalized count difference
SentimentWords ==
  /\ tpc = "sentiment"
  /\ FindAll(blob, <<>>, <<>>) # <<>>
  /\ words' = FindAll(blob, <<>>, <<>>)
  /\ polarity' = Sentiment(blob)
  /\ tpc' = "done"
  /\ UNCHANGED <<text, blob>>

ScoreNext ==
  \/ TextBlobInit /\ UNCHANGED <<rsiVars, mainVars>>
  \/ SentimentNoWords /\ UNCHANGED <<rsiVars, mainVars>>
  \/ SentimentWords /\ UNCHANGED <<rsiVars, mainVars>>

(***************************************************************************)
(* prepare_indicators.py: process_file and rsi_wilder.                     *)
(* df is the frame of one symbol: rows [Date, Close] (the columns the RSI  *)
(* reads; Open/High/Low/Volume and the moving-average, volatility and MACD *)
(* columns are computed from Close independently of RSI14).  A series is a *)
(* sequence of numbers.                                                    *)
(***************************************************************************)
period == 14

\* lexicographic order on sort keys (tuples of integers of one length)
RECURSIVE KeyLess(_, _)
KeyLess(a, b) ==
  /\ a # <<>>
  /\ b # <<>>
  /\ \/ Head(a) < Head(b)
     \/ Head(a) = Head(b) /\ KeyLess(Tail(a), Tail(b))

\* a stable sort of <<key, row>> pairs by key
RECURSIVE InsertByKey(_, _)
InsertByKey(r, s) ==
  IF s = <<>> THEN <<r>>
  ELSE IF KeyLess(r[1], Head(s)[1]) THEN <<r>> \o s
  ELSE <<Head(s)>> \o InsertByKey(r, Tail(s))

RECURSIVE SortPairs(_)
SortPairs(s) ==
  IF s = <<>> THEN <<>>
  ELSE InsertByKey(s[Len(s)], SortPairs(SubSeq(s, 1, Len(s) - 1)))

\* df.sort_values("Date").reset_index(drop=True)
SortByDate(rows) ==
  LET sorted == SortPairs([j \in DOMAIN rows |-> <<(<<rows[j].Date>>), rows[j]>>])
  IN [j \in DOMAIN rows |-> sorted[j][2]]

\* df["Close"]
CloseColumn(rows) == [j \in DOMAIN rows |-> rows[j].Close]

\* series.diff(): undefined at position 0
Diff(s) == [j \in DOMAIN s |-> IF j = 1 THEN NaN ELSE Sub(s[j], s[j - 1])]

\* delta.clip(lower=0), delta.clip(upper=0): NaN stays NaN
ClipLower0(s) ==
  [j \in DOMAIN s |-> IF IsFin(s[j]) /\ s[j].n < 0 THEN Num(0) ELSE s[j]]
ClipUpper0(s) ==
  [j \in DOMAIN s |-> IF IsFin(s[j]) /\ s[j].n > 0 THEN Num(0) ELSE s[j]]

NegSeries(s) == [j \in DOMAIN s |-> Neg(s[j])]

GainOf(series) == ClipLower0(Diff(series))
LossOfBad(series) == ClipUpper0(Diff(series))
LossOf(series) == NegSeries(ClipUpper0(Diff(series)))

\* s.rolling(window=w, min_periods=w).mean(): defined where the trailing w
\* positions exist and all hold a value
RollingMeanBad(s, w) ==
  [j \in DOMAIN s |->
     LET held == {m \in Max(1, j - w + 1)..j : IsFin(s[m])}
     IN IF Cardinality(held) >= w - 1
          THEN Div(SumSeq(Pick(s, held)), Num(Cardinality(held)))
          ELSE NaN]

RollingMean(s, w) ==
  [j \in DOMAIN s |->
     IF j >= w /\ \A m \in (j - w + 1)..j : IsFin(s[m])
       THEN Div(SumSeq(SubSeq(s, j - w + 1, j)), Num(w))
       ELSE NaN]

\* (prev * (period - 1) + x) / period
Wilder(prev, x) == Div(Add(Mul(prev, Num(period - 1)), x), Num(period))

\* 100 - (100 / (1 + rs)) with rs = avg_gain / avg_loss, element by element
RsiOf(g, l) == Sub(Num(100), Div(Num(100), Add(Num(1), Div(g, l))))

\* the input files: Close rows with consecutive dates, in either file order;
\* closes stay positive
StartClose == 20
MaxLen == 16
MaxMoves == 2

RECURSIVE DeltaSeqs(_, _, _)
DeltaSeqs(len, moves, base) ==
  IF len = 0 THEN {<<>>}
  ELSE {Append(s, base) : s \in DeltaSeqs(len - 1, moves, base)}
       \cup (IF moves = 0 THEN {}
             ELSE {Append(s, v) : s \in DeltaSeqs(len - 1, moves - 1, base),
                                  v \in {-1, 0, 1} \ {base}})

RECURSIVE Cumulate(_, _)
Cumulate(start, deltas) ==
  IF deltas = <<>> THEN <<start>>
  ELSE <<start>> \o Cumulate(start + Head(deltas), Tail(deltas))

\* a flat, steadily rising or steadily falling series with at most MaxMoves
\* deviating days
CloseSeries ==
  UNION {{Cumulate(StartClose, ds) : ds \in DeltaSeqs(len - 1, MaxMoves, base)} :
           len \in (period - 1)..MaxLen, base \in {-1, 0, 1}}

\* the documented example: 30 days, close increasing by 1 every day
ExampleCloses == [t \in 1..30 |-> StartClose + t - 1]

FileOf(closes, descending) ==
  [j \in DOMAIN closes |->
     LET t == IF descending THEN Len(closes) + 1 - j ELSE j
     IN [Date |-> t, Close |-> Num(closes[t])]]

\* process_file up to the call rsi_wilder(df["Close"], 14)
ProcessFileSort ==
  /\ rpc = "read"
  /\ df' = SortByDate(df)
  /\ rpc' = "rsi"
  /\ UNCHANGED <<gain, loss, avg_gain, avg_loss, i, prev_gain, prev_loss, RSI14>>

\* rsi_wilder: delta, gain, loss and the two rolling means
RsiSetup ==
  /\ rpc = "rsi"
  /\ LET series == CloseColumn(df)
     IN /\ gain' = GainOf(series)
        /\ loss' = LossOf(series)
        /\ avg_gain' = RollingMean(GainOf(series), period)
        /\ avg_loss' = RollingMean(LossOf(series), period)
  /\ i' = period
  /\ rpc' = "loop"
  /\ UNCHANGED <<df, prev_gain, prev_loss, RSI14>>

\* the loop body at i == period: the seed is the rolling mean at position i
RsiSeed ==
  /\ rpc = "loop"
  /\ i < Len(df)
  /\ i = period
  /\ prev_gain' = At(avg_gain, i)
  /\ prev_loss' = At(avg_loss, i)
  /\ avg_gain' = [avg_gain EXCEPT ![i + 1] = At(avg_gain, i)]
  /\ avg_loss' = [avg_loss EXCEPT ![i + 1] = At(avg_loss, i)]
  /\ i' = i + 1
  /\ UNCHANGED <<df, rpc, gain, loss, RSI14>>

\* the loop body at i > period: Wilder's recurrence
RsiStep ==
  /\ rpc = "loop"
  /\ i < Len(df)
  /\ i # period
  /\ prev_gain' = Wilder(prev_gain, At(gain, i))
  /\ prev_loss' = Wilder(prev_loss, At(loss, i))
  /\ avg_gain' = [avg_gain EXCEPT ![i + 1] = Wilder(prev_gain, At(gain, i))]
  /\ avg_loss' = [avg_loss EXCEPT ![i + 1] = Wilder(prev_loss, At(loss, i))]
  /\ i' = i + 1
  /\ UNCHANGED <<df, rpc, gain, loss, RSI14>>

\* the loop is over: rs and the returned series, stored as df["RSI14"]
RsiReturn ==
  /\ rpc = "loop"
  /\ i >= Len(df)
  /\ RSI14' = [j \in DOMAIN avg_gain |-> RsiOf(avg_gain[j], avg_loss[j])]
  /\ rpc' = "done"
  /\ UNCHANGED <<df, gain, loss, avg_gain, avg_loss, i, prev_gain, prev_loss>>

RsiNext ==
  \/ ProcessFileSort /\ UNCHANGED <<scoreVars, mainVars>>
  \/ RsiSetup /\ UNCHANGED <<scoreVars, mainVars>>
  \/ RsiSeed /\ UNCHANGED <<scoreVars, mainVars>>
  \/ RsiStep /\ UNCHANGED <<scoreVars, mainVars>>
  \/ RsiReturn /\ UNCHANGED <<scoreVars, mainVars>>

(***************************************************************************)
(* sentiment_analysis.py: aggregate_daily_sentiment, prepare_price_df,     *)
(* merge_and_analyze, save_outputs and main.                               *)
(*                                                                         *)
(* A date cell of an input file is a timestamp (day, hour), an empty cell  *)
(* or a string that is no date.  A ticker is a sequence of characters.     *)
(***************************************************************************)
Ts(day, hour) == [k |-> "ts", day |-> day, hour |-> hour]
NaT == [k |-> "nat", day |-> 0, hour |-> 0]
EmptyCell == [k |-> "empty", day |-> 0, hour |-> 0]
BadCell == [k |-> "bad", day |-> 0, hour |-> 0]

\* pd.to_datetime(col, errors='coerce'): what does not parse becomes NaT
ToDatetimeCoerce(c) == IF c.k = "ts" THEN c ELSE NaT

\* pd.to_datetime(col): an empty cell becomes NaT, an unparsable one raises
ToDatetimeRaises(c) == c.k = "bad"
ToDatetime(c) == IF c.k = "ts" THEN c ELSE NaT

\* .dt.date followed by pd.to_datetime: the timestamp at midnight
DateOnly(d) == IF d.k = "ts" THEN Ts(d.day, 0) ELSE NaT

\* str.upper() on one character and on a string
UpperChar(c) ==
  IF c \in Range(LowerCase)
    THEN UpperCase[CHOOSE j \in DOMAIN LowerCase : LowerCase[j] = c]
    ELSE c

Upper(s) == [j \in DOMAIN s |-> UpperChar(s[j])]

\* sort keys: a ticker (upper-case letters) ends with 0, a date puts NaT last
CharCode(c) == CHOOSE j \in DOMAIN UpperCase : UpperCase[j] = c
TickerKey(t) == [j \in DOMAIN t |-> CharCode(t[j])] \o <<0>>
DateKey(d) == IF d.k = "ts" THEN <<0, d.day, d.hour>> ELSE <<1, 0, 0>>

\* the elements of a set of <<key, value>> pairs, in ascending key order
RECURSIVE SetToSeq(_)
SetToSeq(S) ==
  IF S = {} THEN <<>>
  ELSE LET m == CHOOSE x \in S : TRUE IN <<m>> \o SetToSeq(S \ {m})

SortedByKey(S) ==
  LET sorted == SortPairs(SetToSeq(S))
  IN [j \in DOMAIN sorted |-> sorted[j][2]]

RECURSIVE Flatten(_)
Flatten(ss) == IF ss = <<>> THEN <<>> ELSE Head(ss) \o Flatten(Tail(ss))

MinOf(xs) == CHOOSE x \in Range(xs) : \A y \in Range(xs) : Leq(x, y)
MaxOf(xs) == CHOOSE x \in Range(xs) : \A y \in Range(xs) : Leq(y, x)

(***************************************************************************)
(* aggregate_daily_sentiment(news_df)                                      *)
(***************************************************************************)
\* the columns added to a news row: date, ticker, polarity, date_only
ScoredRow(r) ==
  [date |-> ToDatetimeCoerce(r.date),
   ticker |-> Upper(r.stock),
   headline |-> r.headline,
   polarity |-> compute_polarity(r.headline),
   date_only |-> DateOnly(ToDatetimeCoerce(r.date))]

\* 'count' counts the cells that hold a value
CountNonNull(rows) ==
  Cardinality({j \in DOMAIN rows : rows[j].headline.k = "str"})

\* groupby(['ticker','date_only']).agg(...): one row per key, keys sorted,
\* rows whose key holds NaT dropped
aggregate_daily_sentiment(news_df) ==
  LET scored == [j \in DOMAIN news_df |-> ScoredRow(news_df[j])]
      keys == {<<scored[j].ticker, scored[j].date_only>> :
                 j \in {m \in DOMAIN scored : scored[m].date_only.k = "ts"}}
      groups == SortedByKey({<<TickerKey(key[1]) \o DateKey(key[2]), key>> : key \in keys})
      GroupRow(key) ==
        LET grp == Pick(scored, {j \in DOMAIN scored :
                                   /\ scored[j].ticker = key[1]
                                   /\ scored[j].date_only = key[2]})
            pol == [j \in DOMAIN grp |-> grp[j].polarity]
        IN [ticker |-> key[1],
            Date |-> key[2],
            avg_sentiment |-> Div(SumSeq(pol), Num(Len(pol))),
            min_sentiment |-> MinOf(pol),
            max_sentiment |-> MaxOf(pol),
            news_count |-> CountNonNull(grp)]
  IN [j \in DOMAIN groups |-> GroupRow(groups[j])]

(***************************************************************************)
(* prepare_price_df(price_df)                                              *)
(***************************************************************************)
PrepareRaises(price_df) == \E j \in DOMAIN price_df : ToDatetimeRaises(price_df[j].Date)

\* groupby('ticker')['Close'].pct_change() on the sorted rows: undefined on
\* the first row of a ticker
PctChange(rows) ==
  [j \in DOMAIN rows |->
     LET prior == {m \in 1..(j - 1) : rows[m].ticker = rows[j].ticker}
     IN IF prior = {} THEN NaN
        ELSE LET m == CHOOSE x \in prior : \A y \in prior : y <= x
             IN Sub(Div(rows[j].Close, rows[m].Close), Num(1))]

prepare_price_df(price_df) ==
  LET parsed == [j \in DOMAIN price_df |->
                   [ticker |-> Upper(price_df[j].ticker),
                    Date |-> ToDatetime(price_df[j].Date),
                    Close |-> price_df[j].Close]]
      keyed == SortPairs([j \in DOMAIN parsed |->
                 <<TickerKey(parsed[j].ticker) \o DateKey(parsed[j].Date), parsed[j]>>])
      sorted == [j \in DOMAIN keyed |-> keyed[j][2]]
      ret == PctChange(sorted)
  IN [j \in DOMAIN sorted |->
        [ticker |-> sorted[j].ticker, Date |-> sorted[j].Date,
         Close |-> sorted[j].Close, daily_return |-> ret[j]]]

(***************************************************************************)
(* merge_and_analyze(price_df, sentiment_df)                               *)
(***************************************************************************)
\* price_df.merge(sentiment_df, on=['ticker','Date'], how='left'): every left
\* row once per matching right row (null keys match each other), or once
\* with the right columns undefined when nothing matches
MergeLeft(left, right) ==
  Flatten([j \in DOMAIN left |->
    LET p == left[j]
        ms == Pick(right, {m \in DOMAIN right :
                             right[m].ticker = p.ticker /\ right[m].Date = p.Date})
    IN IF ms = <<>>
         THEN <<[ticker |-> p.ticker, Date |-> p.Date, Close |-> p.Close,
                 daily_return |-> p.daily_return,
                 avg_sentiment |-> NaN, min_sentiment |-> NaN,
                 max_sentiment |-> NaN, news_count |-> NaN]>>
         ELSE [m \in DOMAIN ms |->
                 [ticker |-> p.ticker, Date |-> p.Date, Close |-> p.Close,
                  daily_return |-> p.daily_return,
                  avg_sentiment |-> ms[m].avg_sentiment,
                  min_sentiment |-> ms[m].min_sentiment,
                  max_sentiment |-> ms[m].max_sentiment,
                  news_count |-> Num(ms[m].news_count)]]])

\* series.fillna(0)
FillNa0(x) == IF x.k = "nan" THEN Num(0) ELSE x

\* the two fillna lines: avg_sentiment and news_count, nothing else
FillSentimentBad(rows) ==
  [j \in DOMAIN rows |->
     [rows[j] EXCEPT !.avg_sentiment = FillNa0(@), !.news_count = FillNa0(@),
                     !.daily_return = FillNa0(@)]]

FillSentiment(rows) ==
  [j \in DOMAIN rows |->
     [rows[j] EXCEPT !.avg_sentiment = FillNa0(@), !.news_count = FillNa0(@)]]

\* df.dropna(subset=['daily_return'])
DropNaReturn(rows) == Pick(rows, {j \in DOMAIN rows : rows[j].daily_return.k # "nan"})

\* the gate of both correlation scopes: shape[0] >= 10
GateBad(n) == n >= 9

Gate(n) == n >= 10

IsConstant(xs) == \A j \in DOMAIN xs : xs[j] = xs[1]

Sign(a) == IF a > 0 THEN 1 ELSE IF a < 0 THEN -1 ELSE 0

\* scipy.stats.pearsonr(x, y) on finite columns of length >= 2: NaN (with a
\* warning) when a column is constant, otherwise
\*   r = cov / sqrt(vx * vy), kept as its sign and its square.
PearsonRBad(xs, ys) ==
  LET n == Num(Len(xs))
      xy == [j \in DOMAIN xs |-> Mul(xs[j], ys[j])]
      xx == [j \in DOMAIN xs |-> Mul(xs[j], xs[j])]
      yy == [j \in DOMAIN ys |-> Mul(ys[j], ys[j])]
      cov == Sub(Mul(n, SumSeq(xy)), Mul(SumSeq(xs), SumSeq(ys)))
      vx == Sub(Mul(n, SumSeq(xx)), Mul(SumSeq(xs), SumSeq(xs)))
      vy == Sub(Mul(n, SumSeq(yy)), Mul(SumSeq(ys), SumSeq(ys)))
  IN IF IsConstant(xs) \/ IsConstant(ys)
       THEN [k |-> "r", sign |-> 0, square |-> Num(0)]
       ELSE [k |-> "r", sign |-> Sign(cov.n), square |-> Div(Mul(cov, cov), Mul(vx, vy))]

PearsonR(xs, ys) ==
  LET n == Num(Len(xs))
      xy == [j \in DOMAIN xs |-> Mul(xs[j], ys[j])]
      xx == [j \in DOMAIN xs |-> Mul(xs[j], xs[j])]
      yy == [j \in DOMAIN ys |-> Mul(ys[j], ys[j])]
      cov == Sub(Mul(n, SumSeq(xy)), Mul(SumSeq(xs), SumSeq(ys)))
      vx == Sub(Mul(n, SumSeq(xx)), Mul(SumSeq(xs), SumSeq(xs)))
      vy == Sub(Mul(n, SumSeq(yy)), Mul(SumSeq(ys), SumSeq(ys)))
  IN IF IsConstant(xs) \/ IsConstant(ys)
       THEN NaN
       ELSE [k |-> "r", sign |-> Sign(cov.n), square |-> Div(Mul(cov, cov), Mul(vx, vy))]

\* the two-sided p-value pearsonr returns with r: a function of r and the
\* sample size, NaN when r is
PValue(r, n) == IF r.k = "nan" THEN NaN ELSE [k |-> "p", r |-> r, n |-> n]

\* the correlation of one scope: (r, p) when the gate is passed
Correlate(rows) ==
  LET tmp == DropNaReturn(rows)
      x == [j \in DOMAIN tmp |-> tmp[j].avg_sentiment]
      y == [j \in DOMAIN tmp |-> tmp[j].daily_return]
  IN IF Gate(Len(tmp))
       THEN [pearson_r |-> PearsonR(x, y),
             p_value |-> PValue(PearsonR(x, y), Len(tmp)),
             n |-> Len(tmp)]
       ELSE [pearson_r |-> None, p_value |-> None, n |-> Len(tmp)]

TickersOf(rows) == {rows[j].ticker : j \in DOMAIN rows}
RowsOf(rows, t) == Pick(rows, {j \in DOMAIN rows : rows[j].ticker = t})

Merged(price_df, sentiment_df) == FillSentiment(MergeLeft(price_df, sentiment_df))

\* for t, grp in merged.groupby('ticker'): per_ticker_corr[t] = ...
PerTickerCorr(rows) == [t \in TickersOf(rows) |-> Correlate(RowsOf(rows, t))]

\* (global_r, global_p)
GlobalStats(rows) == <<Correlate(rows).pearson_r, Correlate(rows).p_value>>

(***************************************************************************)
(* save_outputs(merged_df, per_ticker_corr, global_stats, ...)             *)
(***************************************************************************)
\* to_csv writes None and NaN as an empty cell
CsvCell(x) == IF x.k \in {"none", "nan"} THEN EmptyCell ELSE x

\* DataFrame.from_dict(per_ticker_corr, orient='index').reset_index(): one
\* row per key of the dictionary, in insertion (groupby) order
CorrRows(corr, stats) ==
  LET order == SortedByKey({<<TickerKey(t), t>> : t \in DOMAIN corr})
  IN [j \in DOMAIN order |->
        [ticker |-> order[j],
         pearson_r |-> CsvCell(corr[order[j]].pearson_r),
         p_value |-> CsvCell(corr[order[j]].p_value),
         n |-> corr[order[j]].n]]

(***************************************************************************)
(* main(args): one action per call it makes.                               *)
(***************************************************************************)
\* a path does not exist: FileNotFoundError
MainFileNotFound ==
  /\ mpc = "start"
  /\ ~found.news \/ ~found.prices
  /\ mpc' = "FileNotFoundError"
  /\ UNCHANGED <<found, news, prices, sentiment_daily, prices_prepared, merged,
                 per_ticker_corr, global_stats, corr_df>>

\* both read_csv calls
MainRead ==
  /\ mpc = "start"
  /\ found.news /\ found.prices
  /\ mpc' = "read"
  /\ UNCHANGED <<found, news, prices, sentiment_daily, prices_prepared, merged,
                 per_ticker_corr, global_stats, corr_df>>

\* sentiment_daily = aggregate_daily_sentiment(news)
MainAggregate ==
  /\ mpc = "read"
  /\ sentiment_daily' = aggregate_daily_sentiment(news)
  /\ mpc' = "aggregated"
  /\ UNCHANGED <<found, news, prices, prices_prepared, merged,
                 per_ticker_corr, global_stats, corr_df>>

\* prices_prepared = prepare_price_df(prices)
MainPrepare ==
  /\ mpc = "aggregated"
  /\ ~PrepareRaises(prices)
  /\ prices_prepared' = prepare_price_df(prices)
  /\ mpc' = "prepared"
  /\ UNCHANGED <<found, news, prices, sentiment_daily, merged,
                 per_ticker_corr, global_stats, corr_df>>

\* pd.to_datetime(price_df['Date']) raises and nothing catches it
MainPrepareRaises ==
  /\ mpc = "aggregated"
  /\ PrepareRaises(prices)
  /\ mpc' = "ValueError"
  /\ UNCHANGED <<found, news, prices, sentiment_daily, prices_prepared, merged,
                 per_ticker_corr, global_stats, corr_df>>

\* merged, per_ticker_corr, global_stats = merge_and_analyze(...)
MainMergeAndAnalyze ==
  /\ mpc = "prepared"
  /\ merged' = Merged(prices_prepared, sentiment_daily)
  /\ per_ticker_corr' = PerTickerCorr(Merged(prices_prepared, sentiment_daily))
  /\ global_stats' = GlobalStats(Merged(prices_prepared, sentiment_daily))
  /\ mpc' = "analyzed"
  /\ UNCHANGED <<found, news, prices, sentiment_daily, prices_prepared, corr_df>>

\* save_outputs(...): merged goes to out_path, the correlations to corr_path
MainSaveOutputs ==
  /\ mpc = "analyzed"
  /\ corr_df' = CorrRows(per_ticker_corr, global_stats)
  /\ mpc' = "done"
  /\ UNCHANGED <<found, news, prices, sentiment_daily, prices_prepared, merged,
                 per_ticker_corr, global_stats>>

Next ==
  \/ MainFileNotFound /\ UNCHANGED <<scoreVars, rsiVars>>
  \/ MainRead /\ UNCHANGED <<scoreVars, rsiVars>>
  \/ MainAggregate /\ UNCHANGED <<scoreVars, rsiVars>>
  \/ MainPrepare /\ UNCHANGED <<scoreVars, rsiVars>>
  \/ MainPrepareRaises /\ UNCHANGED <<scoreVars, rsiVars>>
  \/ MainMergeAndAnalyze /\ UNCHANGED <<scoreVars, rsiVars>>
  \/ MainSaveOutputs /\ UNCHANGED <<scoreVars, rsiVars>>

(***************************************************************************)
(* The input files of main.                                                *)
(* News: every file of at most MaxNews rows over NewsRows.                 *)
(* Prices: the rows of ticker "b" (one of OtherRows) followed by the rows  *)
(* of ticker "AAPL" on consecutive days, latest first; AAPL closes at 1    *)
(* except on at most one day (day 2 or 3) where it closes at 2.  Short     *)
(* price files meet every news file, price files around the gate of 10     *)
(* observations meet the news files of at most MaxNewsLong rows.           *)
(***************************************************************************)
MaxNews == 2
MaxNewsLong == 1
MaxRows == 12

Good == Txt(<<"g","o","o","d">>)
Bad == Txt(<<"B","a","d">>)

NewsRows ==
  {[date |-> d, stock |-> <<"a","a","p","l">>, headline |-> h] :
     d \in {Ts(2, 0), Ts(2, 9), BadCell}, h \in {MISSING, Good, Bad}}
  \cup {[date |-> Ts(2, 0), stock |-> <<"B">>, headline |-> Good]}

RECURSIVE NewsFiles(_)
NewsFiles(m) ==
  IF m = 0 THEN {<<>>}
  ELSE NewsFiles(m - 1)
       \cup {Append(f, r) : f \in {g \in NewsFiles(m - 1) : Len(g) = m - 1}, r \in NewsRows}

PriceRow(t, date, close) == [ticker |-> t, Date |-> date, Close |-> Num(close)]

OtherRows ==
  LET b == <<"b">>
  IN { <<>>,
       <<PriceRow(b, Ts(1, 0), 1)>>,
       <<PriceRow(b, Ts(2, 0), 1), PriceRow(b, Ts(1, 0), 2)>>,
       <<PriceRow(b, Ts(1, 0), 1), PriceRow(b, Ts(1, 0), 2)>>,
       <<PriceRow(b, Ts(1, 0), 1), PriceRow(b, EmptyCell, 2)>>,
       <<PriceRow(b, Ts(1, 0), 1), PriceRow(b, BadCell, 1)>> }

\* len rows of AAPL, latest day first, closing at 2 on day high (0: never)
MainRows(len, high) ==
  [j \in 1..len |->
     LET day == len + 1 - j
     IN PriceRow(<<"A","A","P","L">>, Ts(day, 0), IF day = high THEN 2 ELSE 1)]

\* a price file has at least one row
PriceFiles(lens) ==
  {other \o MainRows(len, high) : other \in OtherRows, len \in lens, high \in {0, 2, 3}}
    \ {<<>>}

(***************************************************************************)
(* The three specifications.                                               *)
(***************************************************************************)
\* compute_polarity(text) is entered
ScoreInit ==
  /\ text \in Texts
  /\ tpc = "call"
  /\ blob = <<>>
  /\ words = <<>>
  /\ polarity = None
  /\ df = <<>>
  /\ rpc = "idle"
  /\ gain = <<>>
  /\ loss = <<>>
  /\ avg_gain = <<>>
  /\ avg_loss = <<>>
  /\ i = 0
  /\ prev_gain = NaN
  /\ prev_loss = NaN
  /\ RSI14 = <<>>
  /\ found = [news |-> FALSE, prices |-> FALSE]
  /\ news = <<>>
  /\ prices = <<>>
  /\ mpc = "idle"
  /\ sentiment_daily = <<>>
  /\ prices_prepared = <<>>
  /\ merged = <<>>
  /\ per_ticker_corr = <<>>
  /\ global_stats = <<>>
  /\ corr_df = <<>>

\* process_file: pd.read_csv(path) has returned the rows of the file
RsiInit ==
  /\ \E closes \in CloseSeries \cup {ExampleCloses}, descending \in BOOLEAN :
       df = FileOf(closes, descending)
  /\ rpc = "read"
  /\ gain = <<>>
  /\ loss = <<>>
  /\ avg_gain = <<>>
  /\ avg_loss = <<>>
  /\ i = 0
  /\ prev_gain = NaN
  /\ prev_loss = NaN
  /\ RSI14 = <<>>
  /\ text = NULL
  /\ tpc = "idle"
  /\ blob = <<>>
  /\ words = <<>>
  /\ polarity = None
  /\ found = [news |-> FALSE, prices |-> FALSE]
  /\ news = <<>>
  /\ prices = <<>>
  /\ mpc = "idle"
  /\ sentiment_daily = <<>>
  /\ prices_prepared = <<>>
  /\ merged = <<>>
  /\ per_ticker_corr = <<>>
  /\ global_stats = <<>>
  /\ corr_df = <<>>

\* main(args) is entered; a file that is not found has no rows to read
Init ==
  /\ \/ /\ found = [news |-> TRUE, prices |-> TRUE]
        /\ \/ news \in NewsFiles(MaxNews) /\ prices \in PriceFiles(0..2)
           \/ news \in NewsFiles(MaxNewsLong) /\ prices \in PriceFiles(10..MaxRows)
     \/ /\ found \in {[news |-> FALSE, prices |-> TRUE], [news |-> TRUE, prices |-> FALSE]}
        /\ news = <<>>
        /\ prices = <<>>
  /\ mpc = "start"
  /\ sentiment_daily = <<>>
  /\ prices_prepared = <<>>
  /\ merged = <<>>
  /\ per_ticker_corr = <<>>
  /\ global_stats = <<>>
  /\ corr_df = <<>>
  /\ text = NULL
  /\ tpc = "idle"
  /\ blob = <<>>
  /\ words = <<>>
  /\ polarity = None
  /\ df = <<>>
  /\ rpc = "idle"
  /\ gain = <<>>
  /\ loss = <<>>
  /\ avg_gain = <<>>
  /\ avg_loss = <<>>
  /\ i = 0
  /\ prev_gain = NaN
  /\ prev_loss = NaN
  /\ RSI14 = <<>>

SpecScore == ScoreInit /\ [][ScoreNext]_vars
SpecRSI == RsiInit /\ [][RsiNext]_vars
Spec == Init /\ [][Next]_vars

(***************************************************************************)
(* Properties of compute_polarity (SpecScore).                             *)
(***************************************************************************)
PosCount == Cardinality({j \in DOMAIN words : words[j] \in POS})
NegCount == Cardinality({j \in DOMAIN words : words[j] \in NEG})

ScoreContract ==
  /\ polarity = Rat(PosCount - NegCount, Max(1, Len(words)))
  /\ Leq(Num(-1), polarity) /\ Leq(polarity, Num(1))
  /\ text \in {NULL, Txt(<<>>)} => polarity = Num(0)

\* C10 as claimed: for every text the fallback strategy returns
\* (pos_count - neg_count) / max(1, token_count), a value in [-1, 1], exactly
\* 0 for a null or empty text, and for "strong growth and profit gain" it
\* counts 3 positive tokens, no negative token, and returns a positive value.
C10_Original ==
  tpc = "done" =>
    /\ ScoreContract
    /\ text = Txt(ExampleHeadline) =>
         PosCount = 3 /\ NegCount = 0 /\ polarity.n > 0

\* C10 as amended: the same contract, but the example headline holds 4
\* positive tokens (strong, growth, profit, gain) among its 5 tokens, so its
\* polarity is 4/5.
C10_Polarity ==
  tpc = "done" =>
    /\ ScoreContract
    /\ text = Txt(ExampleHeadline) =>
         PosCount = 4 /\ NegCount = 0 /\ Len(words) = 5 /\ polarity = Rat(4, 5)

C10_Witness ==
  tpc = "done" /\ text = Txt(ExampleHeadline) /\ polarity = Rat(4, 5)

(***************************************************************************)
(* Properties of rsi_wilder (SpecRSI).                                     *)
(***************************************************************************)
Closes == [j \in DOMAIN df |-> df[j].Close]
Positions == 0..(Len(df) - 1)

\* gain[t] = max(delta[t], 0) and loss[t] = max(-delta[t], 0), for t >= 1
RefGain(t) == LET dl == Sub(At(Closes, t), At(Closes, t - 1))
              IN IF dl.n > 0 THEN dl ELSE Num(0)
RefLoss(t) == LET dl == Sub(At(Closes, t - 1), At(Closes, t))
              IN IF dl.n > 0 THEN dl ELSE Num(0)

\* the seed at 14 is the simple mean over 1..14, later values follow
\* avg[t] = (avg[t-1] * 13 + x[t]) / 14
RECURSIVE RefAvgGain(_)
RefAvgGain(t) ==
  IF t = 14 THEN Div(SumSeq([m \in 1..14 |-> RefGain(m)]), Num(14))
  ELSE Div(Add(Mul(RefAvgGain(t - 1), Num(13)), RefGain(t)), Num(14))

RECURSIVE RefAvgLoss(_)
RefAvgLoss(t) ==
  IF t = 14 THEN Div(SumSeq([m \in 1..14 |-> RefLoss(m)]), Num(14))
  ELSE Div(Add(Mul(RefAvgLoss(t - 1), Num(13)), RefLoss(t)), Num(14))

\* C3 as claimed: at every position t >= 14 where the Wilder average loss is
\* 0 the returned RSI14 is 100, whatever the average gain is.
C3_AllGainPolicy ==
  rpc = "done" =>
    \A t \in Positions :
      (t >= 14 /\ At(avg_loss, t) = Num(0)) => At(RSI14, t) = Num(100)

\* C4: for a series of length >= 14 the returned RSI14 is undefined at every
\* position below 14, lies in [0, 100] wherever it is defined, and at
\* t >= 14 is computed from the averages seeded by the simple means of
\* gain[1..14] and loss[1..14] and continued by the recurrence.
C4_RsiRange ==
  (rpc = "done" /\ Len(df) >= 14) =>
    /\ Len(RSI14) = Len(df)
    /\ \A t \in Positions :
         /\ t < 14 => At(RSI14, t) = NaN
         /\ At(RSI14, t) # NaN =>
              Leq(Num(0), At(RSI14, t)) /\ Leq(At(RSI14, t), Num(100))
         /\ t >= 14 =>
              /\ At(avg_gain, t) = RefAvgGain(t)
              /\ At(avg_loss, t) = RefAvgLoss(t)
              /\ RefAvgLoss(t).n > 0 =>
                   At(RSI14, t) =
                     Div(Mul(Num(100), RefAvgGain(t)),
                         Add(RefAvgGain(t), RefAvgLoss(t)))

C4_Witness ==
  /\ rpc = "done"
  /\ Len(df) > 15
  /\ At(RSI14, 13) = NaN
  /\ Leq(Num(1), At(RSI14, 15)) /\ Leq(At(RSI14, 15), Num(99))
  /\ At(RSI14, 14) # At(RSI14, 15)

IsExample == Closes = [t \in 1..30 |-> Num(ExampleCloses[t])]

\* C5 as claimed: for the 30-day series whose close rises by 1 every day,
\* RSI14 is 100 at every position from 13 to 29.
C5_Original ==
  (rpc = "done" /\ IsExample) => \A t \in 13..29 : At(RSI14, t) = Num(100)

\* C5 as amended: for that series RSI14 is undefined at position 13 (and at
\* every earlier position) and is 100 at every position from 14 to 29.
C5_Amended ==
  (rpc = "done" /\ IsExample) =>
    /\ \A t \in 0..13 : At(RSI14, t) = NaN
    /\ \A t \in 14..29 : At(RSI14, t) = Num(100)

C5_Witness ==
  rpc = "done" /\ IsExample /\ At(RSI14, 13) = NaN /\ At(RSI14, 29) = Num(100)

(***************************************************************************)
(* Properties of main of sentiment_analysis.py (Spec).                     *)
(***************************************************************************)
Analyzed == mpc \in {"analyzed", "done"}
Aggregated == mpc \in {"aggregated", "prepared", "ValueError", "analyzed", "done"}

MergedTickers == {merged[j].ticker : j \in DOMAIN merged}

\* the merged rows of a scope that have a defined daily return
ValidRows(t) ==
  {j \in DOMAIN merged : merged[j].ticker = t /\ merged[j].daily_return # NaN}
AllValidRows == {j \in DOMAIN merged : merged[j].daily_return # NaN}

Undefined(x) == x.k \in {"none", "nan"}

\* C1: in every scope r and p are computed only when the scope has at least
\* 10 merged rows with a defined daily return; with fewer, pearson_r and
\* p_value are undefined, and a ticker's n is exactly its count of such rows.
C1_Gate ==
  Analyzed =>
    /\ DOMAIN per_ticker_corr = MergedTickers
    /\ \A t \in MergedTickers :
         LET c == per_ticker_corr[t]
         IN /\ c.n = Cardinality(ValidRows(t))
            /\ c.n < 10 => c.pearson_r = None /\ c.p_value = None
            /\ (c.pearson_r.k # "none" \/ c.p_value.k # "none") => c.n >= 10
    /\ Cardinality(AllValidRows) < 10 => global_stats = <<None, None>>
    /\ (global_stats[1].k # "none" \/ global_stats[2].k # "none")
         => Cardinality(AllValidRows) >= 10

C1_Witness ==
  /\ mpc = "analyzed"
  /\ \E t \in MergedTickers :
       per_ticker_corr[t].n = 9 /\ per_ticker_corr[t].pearson_r = None
  /\ Cardinality(AllValidRows) = 10
  /\ global_stats[1].k = "r"

\* C2 as claimed: pearson_r and p_value are undefined exactly when n < 10;
\* with n >= 10 both are defined whatever the values of the rows, also for
\* a ticker without any news.
C2_Original ==
  Analyzed =>
    /\ \A t \in MergedTickers :
         LET c == per_ticker_corr[t]
         IN /\ Undefined(c.pearson_r) <=> c.n < 10
            /\ Undefined(c.p_value) <=> c.n < 10
    /\ Undefined(global_stats[1]) <=> Cardinality(AllValidRows) < 10
    /\ Undefined(global_stats[2]) <=> Cardinality(AllValidRows) < 10

\* whether a column takes two different values on the rows J
SentimentVaries(J) ==
  \E a \in J, b \in J : merged[a].avg_sentiment # merged[b].avg_sentiment
ReturnVaries(J) ==
  \E a \in J, b \in J : merged[a].daily_return # merged[b].daily_return

\* C2 as amended: pearson_r and p_value are undefined whenever n < 10; with
\* n >= 10 they are defined exactly when neither avg_sentiment nor the
\* return is constant over the rows of the scope (a ticker without news has
\* avg_sentiment 0 on every row, so its r and p are NaN however large n is).
C2_Amended ==
  Analyzed =>
    /\ \A t \in MergedTickers :
         LET c == per_ticker_corr[t]
             varies == SentimentVaries(ValidRows(t)) /\ ReturnVaries(ValidRows(t))
         IN /\ c.n < 10 => Undefined(c.pearson_r) /\ Undefined(c.p_value)
            /\ c.n >= 10 => /\ ~Undefined(c.pearson_r) <=> varies
                            /\ ~Undefined(c.p_value) <=> varies
    /\ LET varies == SentimentVaries(AllValidRows) /\ ReturnVaries(AllValidRows)
       IN /\ Cardinality(AllValidRows) < 10 =>
               Undefined(global_stats[1]) /\ Undefined(global_stats[2])
          /\ Cardinality(AllValidRows) >= 10 =>
               /\ ~Undefined(global_stats[1]) <=> varies
               /\ ~Undefined(global_stats[2]) <=> varies

C2_Witness ==
  /\ mpc = "analyzed"
  /\ \E t \in MergedTickers :
       /\ per_ticker_corr[t].n >= 10
       /\ \A j \in ValidRows(t) : merged[j].news_count = Num(0)
       /\ ReturnVaries(ValidRows(t))
       /\ per_ticker_corr[t].pearson_r = NaN
       /\ per_ticker_corr[t].p_value = NaN

Global == <<"g","l","o","b","a","l">>

\* C6 as claimed: the correlation output holds exactly one row per ticker
\* plus one row for the "global" scope.
C6_GlobalRow ==
  mpc = "done" =>
    /\ {corr_df[j].ticker : j \in DOMAIN corr_df} = MergedTickers \cup {Global}
    /\ Len(corr_df) = Cardinality(MergedTickers) + 1

\* C7 as claimed: with both input files found, a row whose date cannot be
\* parsed, in the news or in the prices, never aborts the run; it gets an
\* undefined date and is left out of every correlation.
C7_BadDateTolerated ==
  /\ (found.news /\ found.prices) => mpc # "ValueError"
  /\ Aggregated => \A j \in DOMAIN sentiment_daily : sentiment_daily[j].Date # NaT
  /\ Analyzed =>
       /\ \A t \in MergedTickers :
            per_ticker_corr[t].n =
              Cardinality({j \in ValidRows(t) : merged[j].Date # NaT})
       /\ global_stats[1].k # "none" =>
            Cardinality({j \in AllValidRows : merged[j].Date # NaT}) >= 10

SentimentKeys == {<<sentiment_daily[j].ticker, sentiment_daily[j].Date>> :
                    j \in DOMAIN sentiment_daily}

\* C8: the merged table keeps every price row exactly once, in order; a
\* price row without a DailySentiment record gets avg_sentiment 0 and
\* news_count 0, and its daily return stays as computed (undefined stays
\* undefined).
C8_LeftJoin ==
  Analyzed =>
    /\ Len(merged) = Len(prices_prepared)
    /\ \A j \in DOMAIN merged :
         /\ merged[j].ticker = prices_prepared[j].ticker
         /\ merged[j].Date = prices_prepared[j].Date
         /\ merged[j].Close = prices_prepared[j].Close
         /\ merged[j].daily_return = prices_prepared[j].daily_return
         /\ <<merged[j].ticker, merged[j].Date>> \notin SentimentKeys =>
              merged[j].avg_sentiment = Num(0) /\ merged[j].news_count = Num(0)
    /\ \A j \in DOMAIN merged :
         (\A m \in 1..(j - 1) : merged[m].ticker # merged[j].ticker) =>
           merged[j].daily_return = NaN

C8_Witness ==
  /\ mpc = "analyzed"
  /\ \E j \in DOMAIN merged :
       /\ <<merged[j].ticker, merged[j].Date>> \notin SentimentKeys
       /\ merged[j].daily_return = NaN
       /\ merged[j].news_count = Num(0)
  /\ \E j \in DOMAIN merged :
       /\ <<merged[j].ticker, merged[j].Date>> \in SentimentKeys
       /\ merged[j].avg_sentiment # Num(0)

\* the news items of the (ticker, day) group of a DailySentiment record
GroupItems(rec) ==
  {j \in DOMAIN news :
     /\ Upper(news[j].stock) = rec.ticker
     /\ news[j].date.k = "ts"
     /\ Ts(news[j].date.day, 0) = rec.Date}

\* C9 as claimed: every DailySentiment record has news_count equal to the
\* number of news items of its (ticker, day) group, hence at least 1, also
\* when items have no headline.
C9_NewsCount ==
  Aggregated =>
    \A j \in DOMAIN sentiment_daily :
      /\ sentiment_daily[j].news_count = Cardinality(GroupItems(sentiment_daily[j]))
      /\ sentiment_daily[j].news_count >= 1

====
